---- MODULE Spec2Model ----
(***************************************************************************)
(* Model of bin/import-images/import.py: the image import utility that     *)
(* copies JPEG files into <destination>/images under sequential            *)
(* LOP25-nnnn.jpeg names, optionally stamps the EXIF Artist tag, writes a  *)
(* thumbnail into <destination>/thumbs and appends the new names to a      *)
(* TOML index file.                                                        *)
(*                                                                         *)
(* File names are sequences of one-character strings, so that the f-string *)
(* formatting of main and the regular expression of                        *)
(* find_highest_serial_number are computed character by character.         *)
(***************************************************************************)
EXTENDS Integers, Sequences, FiniteSets, TLC

VARIABLES
    images,          \* <destination>/images: [exists, files: name -> file]
    thumbs,          \* <destination>/thumbs: [exists, files: name -> file]
    index,           \* the file at --index-file: [st, doc]
    pc,              \* position of the process inside main
    args,            \* parsed command line: [photographer, index_file]
    image_files,     \* main: the enumerated source files, in order
    highest_num,     \* main: result of find_highest_serial_number
    current_num,     \* main: the counter
    imported_files,  \* main: the admitted file names
    pos,             \* main: 1-based position of the for loop in image_files
    status,          \* exit status of the process (NotExited while running)
    errors,          \* what went wrong during the current run (observation)
    runs,            \* number of runs started so far
    faults,          \* number of environment failures injected so far
    admitted,        \* every append to imported_files of every run, in order
    copyLog,         \* this run: for each copy made, the source and the number
    indexBefore,     \* this run: the index file as update_toml_index found it
    mergeOutcome,    \* this run: how update_toml_index ended
    crashed,         \* some run so far ended by an uncaught exception
    total,           \* number of source files enumerated so far, over all runs
    imagesBefore,    \* this run: the images directory when the run started
    thumbsBefore,    \* this run: the thumbs directory when the run started
    inSync,          \* the index listed the images directory at the start and
                     \* every run since had --index-file and ended by writing it
    leftBehind,      \* the numbers the previous run copied, if a copy ended it
    source,          \* a source directory: the set of its entry names
    listed           \* the results of the calls of get_image_files on it

vars == <<images, thumbs, index, pc, args, image_files, highest_num,
          current_num, imported_files, pos, status, errors, runs, faults,
          admitted, copyLog, indexBefore, mergeOutcome, crashed, total,
          imagesBefore, thumbsBefore, inSync, leftBehind, source, listed>>

----------------------------------------------------------------------------
(* Bounds of the model.                                                    *)

MaxRuns == 2

MaxItems == 2

MaxFaults == 1

MaxTotal == 3

MaxCalls == 2

NotExited == 0 - 1

----------------------------------------------------------------------------
(* File names: formatting and matching.                                    *)

Prefix == <<"L", "O", "P", "2", "5", "-">>

Ext == <<".", "j", "p", "e", "g">>

DigitChars == <<"0", "1", "2", "3", "4", "5", "6", "7", "8", "9">>

IsDigit(c) == \E d \in 1..10 : DigitChars[d] = c

DigitVal(c) == (CHOOSE d \in 1..10 : DigitChars[d] = c) - 1

\* The minimum field width of the format specification :04d.
FormatWidth == 4

\* The repetition count of \d{4} in the pattern.
PatternDigits == 4

RECURSIVE Decimal(_)
Decimal(n) ==
    IF n < 10 THEN <<DigitChars[n + 1]>>
    ELSE Decimal(n \div 10) \o <<DigitChars[(n % 10) + 1]>>

RECURSIVE ZeroPad(_, _)
ZeroPad(s, w) == IF Len(s) >= w THEN s ELSE ZeroPad(<<"0">> \o s, w)

\* f"{n:04d}": decimal digits, zero-padded to at least four characters.
Format04d(n) == ZeroPad(Decimal(n), FormatWidth)

\* f"LOP25-{current_num:04d}.jpeg"
new_name(n) == Prefix \o Format04d(n) \o Ext

\* int(s) for a string of decimal digits.
RECURSIVE int(_)
int(ds) ==
    IF ds = <<>> THEN 0
    ELSE int(SubSeq(ds, 1, Len(ds) - 1)) * 10 + DigitVal(ds[Len(ds)])

\* pattern.match(name) for r'LOP25-(\d{4})\.jpeg': re.match anchors the
\* pattern at the start of the name only.
pattern_match(name) ==
    LET p == Len(Prefix)
        d == PatternDigits
        e == Len(Ext)
    IN  /\ Len(name) >= p + d + e
        /\ SubSeq(name, 1, p) = Prefix
        /\ \A k \in (p + 1)..(p + d) : IsDigit(name[k])
        /\ SubSeq(name, p + d + 1, p + d + e) = Ext

\* match.group(1)
group1(name) == SubSeq(name, Len(Prefix) + 1, Len(Prefix) + PatternDigits)

SetMax(S) == CHOOSE m \in S : \A x \in S : x <= m

find_highest_serial_number(dest_dir) ==
    IF ~dest_dir.exists THEN 0
    ELSE SetMax({0} \cup
                {int(group1(nm)) : nm \in
                    {f \in DOMAIN dest_dir.files :
                        dest_dir.files[f].isFile /\ pattern_match(f)}})

----------------------------------------------------------------------------
(* Files and directories.                                                  *)

\* A directory entry. Regular files carry the source file their bytes came
\* from (`of`, <<run, position>>, <<0, k>> for files that were there before
\* the first run) and what was last done to them:
\*   "copied"  the bytes of the source, as shutil.copy2 wrote them
\*   "stamped" re-encoded by update_exif_artist with the Artist tag set
\*   "thumb"   the thumbnail written by create_thumbnail
\*   "torn"    opened for writing and not completely written
File(of, st) == [isFile |-> TRUE, of |-> of, st |-> st]

SubDir == [isFile |-> FALSE, of |-> <<0, 0>>, st |-> "dir"]

NoFiles == [nm \in {} |-> SubDir]

Dir(files) == [exists |-> TRUE, files |-> files]

NoDir == [exists |-> FALSE, files |-> NoFiles]

\* Path.mkdir(exist_ok=True)
mkdir(d) == [d EXCEPT !.exists = TRUE]

\* Writing entry nm of directory d.
Put(d, nm, f) == [d EXCEPT !.files = (nm :> f) @@ d.files]

Has(d, nm) == nm \in DOMAIN d.files

----------------------------------------------------------------------------
(* The TOML index file.                                                    *)

\* TOML values: an array of tables or a string.
Array(items) == [kind |-> "array", items |-> items, text |-> ""]

Str(text) == [kind |-> "string", items |-> <<>>, text |-> text]

EmptyDoc == [k \in {} |-> Str("")]

\* The file at the index path:
\*   "absent"  index_file.exists() is false
\*   "toml"    holds the serialisation of `doc`
\*   "garbage" exists and is not valid TOML
\*   "torn"    opened with mode 'w' (truncated) and not completely written
IndexFile(st, doc) == [st |-> st, doc |-> doc]

\* toml.load(index_file): the document, or an exception. A torn file is
\* empty or cut short; it is taken as not loadable (an empty file would
\* load as the empty document, which is what the caller falls back to).
toml_load(f) ==
    IF f.st = "toml" THEN [raised |-> FALSE, data |-> f.doc]
    ELSE [raised |-> TRUE, data |-> EmptyDoc]

\* A load whose exception is not caught.
LoadExistingUncaught(f) ==
    IF f.st # "absent"
    THEN [crash |-> toml_load(f).raised, data |-> toml_load(f).data]
    ELSE [crash |-> FALSE, data |-> EmptyDoc]

\* update_toml_index, loading: existing data or a new structure. `crash`
\* says whether an exception leaves update_toml_index.
LoadExisting(f) ==
    IF f.st # "absent"
    THEN IF toml_load(f).raised
         THEN [crash |-> FALSE, data |-> EmptyDoc]
         ELSE [crash |-> FALSE, data |-> toml_load(f).data]
    ELSE [crash |-> FALSE, data |-> EmptyDoc]

\* if 'images' not in data: data['images'] = []
EnsureImages(data) ==
    IF "images" \in DOMAIN data THEN data
    ELSE ("images" :> Array(<<>>)) @@ data

\* data['images'].append raises AttributeError unless the value is a list.
AppendRaises(data) == data["images"].kind # "array"

\* An update that replaces the array by the new entries.
AppendEntriesOverwriting(data, files) ==
    [data EXCEPT !["images"].items = [k \in 1..Len(files) |-> [file |-> files[k]]]]

\* An update whose entries hold the file name under another key.
AppendEntriesWrongKey(data, files) ==
    [data EXCEPT !["images"].items =
        @ \o [k \in 1..Len(files) |-> [name |-> files[k]]]]

\* for image_file in image_files: data['images'].append({'file': image_file})
AppendEntries(data, files) ==
    [data EXCEPT !["images"].items =
        @ \o [k \in 1..Len(files) |-> [file |-> files[k]]]]

\* with open(index_file, 'w') as f: toml.dump(data, f), by outcome:
\*   "written"     the dump completed
\*   "open_failed" open() raised: the file is as it was
\*   "torn"        open() truncated the file and the dump did not complete
WriteBack(f, data, outcome) ==
    CASE outcome = "written" -> IndexFile("toml", data)
      [] outcome = "open_failed" -> f
      [] outcome = "torn" -> IndexFile("torn", EmptyDoc)

----------------------------------------------------------------------------
(* Initial contents of the destination and of the index file.              *)

\* A file of an earlier import, k-th of the files present at the start.
Old(k) == File(<<0, k>>, "copied")

OldThumb(k) == File(<<0, k>>, "thumb")

BakSuffix == <<".", "b", "a", "k">>

\* LOP25-00031.jpeg: five digits.
FiveDigitName == Prefix \o <<"0", "0", "0", "3", "1">> \o Ext

\* lop25-0004.jpeg: the prefix in lower case.
LowerCaseName == <<"l", "o", "p", "2", "5", "-">> \o Format04d(4) \o Ext

Title == "title" :> Str("Lifjell Opp 2025")

Entries(names) == Array([k \in 1..Len(names) |-> [file |-> names[k]]])

\* What a first run may find: <<images, thumbs, index file>>.
\*   1  no destination, no index file
\*   2  an empty destination, an index file that is not TOML
\*   3  two files of an earlier import, indexed
\*   4  two files of an earlier import, an index without an images key
\*   5  LOP25-9999.jpeg of an earlier import, indexed
\*   6  LOP25-0001.jpeg and LOP25-0007.jpeg.bak, an index whose images key
\*      holds a string
\*   7  names with five digits and with a lower-case prefix, a subdirectory
\*      named like an image, an index without an images key
InitialStates ==
    LET two == (new_name(1) :> Old(1)) @@ (new_name(2) :> Old(2))
        twoThumbs == (new_name(1) :> OldThumb(1)) @@ (new_name(2) :> OldThumb(2))
    IN { <<NoDir, NoDir, IndexFile("absent", EmptyDoc)>>,
         <<Dir(NoFiles), Dir(NoFiles), IndexFile("garbage", EmptyDoc)>>,
         <<Dir(two), Dir(twoThumbs),
           IndexFile("toml", Title @@ ("images" :>
                                Entries(<<new_name(1), new_name(2)>>)))>>,
         <<Dir(two), Dir(twoThumbs), IndexFile("toml", Title)>>,
         <<Dir(new_name(9999) :> Old(1)), Dir(new_name(9999) :> OldThumb(1)),
           IndexFile("toml", "images" :> Entries(<<new_name(9999)>>))>>,
         <<Dir((new_name(1) :> Old(1)) @@ ((new_name(7) \o BakSuffix) :> Old(2))),
           Dir(new_name(1) :> OldThumb(1)),
           IndexFile("toml", "images" :> Str("none"))>>,
         <<Dir((FiveDigitName :> Old(1)) @@ (LowerCaseName :> Old(2))
               @@ (new_name(5000) :> SubDir)),
           Dir(NoFiles), IndexFile("toml", Title)>> }

NoErrors == [copy |-> 0, exif |-> {}, thumb |-> {}]

\* A name made of the prefix, one or more digits and the extension.
IsIdName(nm) ==
    LET p == Len(Prefix)
        e == Len(Ext)
    IN  /\ Len(nm) > p + e
        /\ SubSeq(nm, 1, p) = Prefix
        /\ SubSeq(nm, Len(nm) - e + 1, Len(nm)) = Ext
        /\ \A k \in (p + 1)..(Len(nm) - e) : IsDigit(nm[k])

\* The identifier such a name carries.
IdOf(nm) == int(SubSeq(nm, Len(Prefix) + 1, Len(nm) - Len(Ext)))

\* Names in ascending order of identifier.
RECURSIVE SortById(_)
SortById(S) ==
    IF S = {} THEN <<>>
    ELSE LET m == CHOOSE x \in S : \A y \in S : IdOf(x) <= IdOf(y)
         IN  <<m>> \o SortById(S \ {m})

\* The file names of the entries of an index file's images array; none for
\* an absent file or a document without the key.
IndexedNames(f) ==
    IF f.st = "toml" /\ "images" \in DOMAIN f.doc
    THEN [k \in DOMAIN f.doc["images"].items |-> f.doc["images"].items[k].file]
    ELSE <<>>

\* The index file lists exactly the files of the images directory, in
\* ascending order of identifier.
IndexListsImages(d, f) ==
    /\ f.st \in {"absent", "toml"}
    /\ f.st = "toml" => ("images" \in DOMAIN f.doc => f.doc["images"].kind = "array")
    /\ \A nm \in DOMAIN d.files : IsIdName(nm) /\ d.files[nm].isFile
    /\ IndexedNames(f) = SortById(DOMAIN d.files)

Init ==
    /\ \E s \in InitialStates : images = s[1] /\ thumbs = s[2] /\ index = s[3]
    /\ pc = "idle"
    /\ args = [photographer |-> FALSE, index_file |-> FALSE]
    /\ image_files = <<>>
    /\ highest_num = 0
    /\ current_num = 0
    /\ imported_files = <<>>
    /\ pos = 0
    /\ status = NotExited
    /\ errors = NoErrors
    /\ runs = 0
    /\ faults = 0
    /\ admitted = <<>>
    /\ copyLog = <<>>
    /\ indexBefore = index
    /\ mergeOutcome = "none"
    /\ crashed = FALSE
    /\ total = 0
    /\ imagesBefore = images
    /\ thumbsBefore = thumbs
    /\ inSync = IndexListsImages(images, index)
    /\ leftBehind = {}
    /\ source = {}
    /\ listed = <<>>

----------------------------------------------------------------------------
(* The steps of main.                                                      *)

\* The outcomes of a step: those of a working environment, and, while the
\* budget of injected failures lasts, those of a failing one.
Outcomes(ok, failing) == ok \cup (IF faults < MaxFaults THEN failing ELSE {})

Failed(outcome) == outcome # "ok" /\ outcome # "written"

Spend(outcome) == faults' = faults + (IF Failed(outcome) THEN 1 ELSE 0)

\* The source files of run r, in the order get_image_files returned them.
SourceFiles(r, n) == [k \in 1..n |-> <<r, k>>]

\* The counter of the first item.
FirstNum(highest) == highest + 1

\* A counter that skips a number.
NextNumSkipping(n) == n + 2

\* current_num += 1
NextNum(n) == n + 1

\* An empty enumeration that goes on to the index update.
EmptySourceFallsThrough ==
    [pc |-> IF args'.index_file THEN "merge" ELSE "report", status |-> NotExited]

\* if not image_files: return 0
EmptySourceExit == [pc |-> "done", status |-> 0]

\* A process starts: main up to the for loop. The directories are created,
\* the highest serial number is looked up, the source is enumerated, and
\* with no source file main returns 0.
StartRun(n, photographer, index_file) ==
    /\ pc \in {"idle", "done", "aborted"}
    /\ runs < MaxRuns
    /\ total + n <= MaxTotal
    /\ total' = total + n
    /\ runs' = runs + 1
    /\ args' = [photographer |-> photographer, index_file |-> index_file]
    /\ images' = mkdir(images)
    /\ thumbs' = mkdir(thumbs)
    /\ highest_num' = find_highest_serial_number(images')
    /\ image_files' = SourceFiles(runs', n)
    /\ imported_files' = <<>>
    /\ errors' = NoErrors
    /\ copyLog' = <<>>
    /\ indexBefore' = index
    /\ mergeOutcome' = "none"
    /\ imagesBefore' = images'
    /\ thumbsBefore' = thumbs'
    /\ inSync' = (inSync /\ index_file /\ pc # "aborted")
    /\ leftBehind' = IF pc = "aborted" /\ errors.copy # 0
                     THEN {copyLog[k].num : k \in DOMAIN copyLog}
                     ELSE {}
    /\ IF n = 0
       THEN /\ pc' = EmptySourceExit.pc
            /\ status' = EmptySourceExit.status
            /\ UNCHANGED <<current_num, pos>>
       ELSE /\ pc' = "copy"
            /\ status' = NotExited
            /\ current_num' = FirstNum(highest_num')
            /\ pos' = 1
    /\ UNCHANGED <<source, listed,
                   index, faults, admitted, crashed>>

\* A loop body that stamps whether or not a photographer was given.
AfterCopyAlwaysStamping(photographer) == "exif"

\* After the copy: update_exif_artist if args.photographer, else
\* create_thumbnail.
AfterCopy(photographer) == IF photographer THEN "exif" ELSE "thumb"

\* A copy whose exception is caught like those of the other two steps.
OnCopyErrorCaught == [pc |-> "thumb", status |-> NotExited]

\* What an exception of shutil.copy2 does to main: nothing catches it, the
\* process ends with a traceback and exit status 1.
OnCopyError == [pc |-> "aborted", status |-> 1]

\* shutil.copy2(source_file, dest_file), by outcome:
\*   "ok"         dest_file holds the bytes of the source
\*   "unreadable" the source could not be opened: nothing is written
\*   "torn"       dest_file was opened for writing and the copy broke off
\* A dest_file that is a directory receives the copy inside it.
Copy ==
    /\ pc = "copy"
    /\ LET nm == new_name(current_num)
           src == image_files[pos]
           intoDir == Has(images, nm) /\ ~images.files[nm].isFile
       IN \E outcome \in Outcomes({"ok"}, {"unreadable", "torn"}) :
            /\ Spend(outcome)
            /\ images' = IF outcome = "unreadable" \/ intoDir THEN images
                         ELSE IF outcome = "ok"
                              THEN Put(images, nm, File(src, "copied"))
                              ELSE Put(images, nm, File(src, "torn"))
            /\ IF outcome = "ok"
               THEN /\ copyLog' = Append(copyLog,
                                         [src |-> src, num |-> current_num, name |-> nm])
                    /\ pc' = AfterCopy(args.photographer)
                    /\ UNCHANGED <<status, errors, crashed>>
               ELSE /\ pc' = OnCopyError.pc
                    /\ status' = OnCopyError.status
                    /\ errors' = [errors EXCEPT !.copy = pos]
                    /\ crashed' = TRUE
                    /\ UNCHANGED copyLog
    /\ UNCHANGED <<imagesBefore, thumbsBefore, inSync, leftBehind, source, listed,
                   total, thumbs, index, args, image_files, highest_num, current_num,
                   imported_files, pos, runs, admitted, indexBefore, mergeOutcome>>

\* The file update_exif_artist leaves behind, by outcome:
\*   "ok"     re-encoded in place with the Artist tag
\*   "decode" Image.open, piexif.load or piexif.dump raised: nothing written
\*   "save"   image.save raised after opening image_file for writing
Stamped(f, outcome) ==
    CASE outcome = "ok" -> [f EXCEPT !.st = "stamped"]
      [] outcome = "decode" -> f
      [] outcome = "save" -> [f EXCEPT !.st = "torn"]

\* update_exif_artist(dest_file, args.photographer): every exception is
\* caught and reported as a warning.
Exif ==
    /\ pc = "exif"
    /\ LET nm == new_name(current_num)
       IN \E outcome \in Outcomes({"ok"}, {"decode", "save"}) :
            /\ Spend(outcome)
            /\ images' = IF Has(images, nm) /\ images.files[nm].isFile
                         THEN Put(images, nm, Stamped(images.files[nm], outcome))
                         ELSE images
            /\ errors' = IF Failed(outcome)
                         THEN [errors EXCEPT !.exif = @ \cup {pos}]
                         ELSE errors
    /\ pc' = "thumb"
    /\ UNCHANGED <<imagesBefore, thumbsBefore, inSync, leftBehind, source, listed,
                   total, thumbs, index, args, image_files, highest_num, current_num,
                   imported_files, pos, status, runs, admitted, copyLog,
                   indexBefore, mergeOutcome, crashed>>

\* The thumbs directory create_thumbnail leaves behind, by outcome:
\*   "ok"     thumb_dir / thumb_name holds the thumbnail of the source
\*   "decode" Image.open, convert or thumbnail raised: nothing written
\*   "save"   image.save raised: a file it created is removed again, a
\*            file that was there before stays, opened for writing
Thumbnailed(d, nm, src, outcome) ==
    CASE outcome = "ok" -> Put(d, nm, File(src, "thumb"))
      [] outcome = "decode" -> d
      [] outcome = "save" ->
            IF Has(d, nm) THEN Put(d, nm, [d.files[nm] EXCEPT !.st = "torn"])
            ELSE d

\* create_thumbnail(source_file, thumbs_dir, new_name): every exception is
\* caught and reported as a warning.
Thumb ==
    /\ pc = "thumb"
    /\ \E outcome \in Outcomes({"ok"}, {"decode", "save"}) :
            /\ Spend(outcome)
            /\ thumbs' = Thumbnailed(thumbs, new_name(current_num),
                                     image_files[pos], outcome)
            /\ errors' = IF Failed(outcome)
                         THEN [errors EXCEPT !.thumb = @ \cup {pos}]
                         ELSE errors
    /\ pc' = "append"
    /\ UNCHANGED <<imagesBefore, thumbsBefore, inSync, leftBehind, source, listed,
                   total, images, index, args, image_files, highest_num, current_num,
                   imported_files, pos, status, runs, admitted, copyLog,
                   indexBefore, mergeOutcome, crashed>>

\* imported_files.append(new_name); current_num += 1; and the for loop
\* moves on, or ends: then the index is updated if --index-file was given.
AppendImported ==
    /\ pc = "append"
    /\ imported_files' = Append(imported_files, new_name(current_num))
    /\ admitted' = Append(admitted, [run |-> runs, num |-> current_num,
                                     name |-> new_name(current_num)])
    /\ current_num' = NextNum(current_num)
    /\ pos' = pos + 1
    /\ pc' = IF pos < Len(image_files) THEN "copy"
             ELSE IF args.index_file THEN "merge" ELSE "report"
    /\ UNCHANGED <<imagesBefore, thumbsBefore, inSync, leftBehind, source, listed,
                   total, images, thumbs, index, args, image_files, highest_num,
                   status, errors, runs, faults, copyLog, indexBefore,
                   mergeOutcome, crashed>>

\* update_toml_index(index_file, imported_files). The load and the write
\* are inside try blocks; the append is not.
Merge ==
    /\ pc = "merge"
    /\ LET loaded == LoadExisting(index)
           data == EnsureImages(loaded.data)
       IN IF loaded.crash \/ AppendRaises(data)
          THEN /\ pc' = "aborted"
               /\ status' = 1
               /\ mergeOutcome' = "raised"
               /\ crashed' = TRUE
               /\ UNCHANGED <<index, faults, inSync>>
          ELSE \E outcome \in Outcomes({"written"}, {"open_failed", "torn"}) :
                 /\ Spend(outcome)
                 /\ index' = WriteBack(index, AppendEntries(data, imported_files),
                                       outcome)
                 /\ mergeOutcome' = outcome
                 /\ inSync' = (inSync /\ outcome = "written")
                 /\ pc' = "report"
                 /\ UNCHANGED <<status, crashed>>
    /\ UNCHANGED <<imagesBefore, thumbsBefore, leftBehind, source, listed,
                   total, images, thumbs, args, image_files, highest_num, current_num,
                   imported_files, pos, errors, runs, admitted, copyLog,
                   indexBefore>>

\* print(f"Successfully imported ..."); return 0
Report ==
    /\ pc = "report"
    /\ pc' = "done"
    /\ status' = 0
    /\ UNCHANGED <<imagesBefore, thumbsBefore, inSync, leftBehind, source, listed,
                   total, images, thumbs, index, args, image_files, highest_num,
                   current_num, imported_files, pos, errors, runs, faults,
                   admitted, copyLog, indexBefore, mergeOutcome, crashed>>

Next ==
    \/ \E n \in 0..MaxItems, photographer \in BOOLEAN, index_file \in BOOLEAN :
          StartRun(n, photographer, index_file)
    \/ Copy
    \/ Exif
    \/ Thumb
    \/ AppendImported
    \/ Merge
    \/ Report

Spec == Init /\ [][Next]_vars

----------------------------------------------------------------------------
(* get_image_files, on its own.                                            *)

\* The characters of the source names below, in ascending order of code
\* point: the full stop, the upper-case letters, the lower-case letters.
CodeOrder ==
    <<".", "E", "G", "J", "P", "a", "b", "c", "d", "e", "f", "g", "j", "n",
      "p", "t", "x">>

Code(c) == CHOOSE k \in DOMAIN CodeOrder : CodeOrder[k] = c

\* a < b for two names, as Python compares the strings: by the first
\* character that differs, a proper prefix first.
LexLess(a, b) ==
    \E k \in 1..(Len(a) + 1) :
        /\ k <= Len(b)
        /\ \A j \in 1..(k - 1) : a[j] = b[j]
        /\ k = Len(a) + 1 \/ Code(a[k]) < Code(b[k])

\* sorted(q): insertion of each element in turn.
RECURSIVE Insert(_, _)
Insert(x, q) ==
    IF q = <<>> THEN <<x>>
    ELSE IF LexLess(Head(q), x) THEN <<Head(q)>> \o Insert(x, Tail(q))
    ELSE <<x>> \o q

RECURSIVE sorted(_)
sorted(q) == IF q = <<>> THEN <<>> ELSE Insert(Head(q), sorted(Tail(q)))

\* The lower-case and upper-case patterns only.
PatternsLowerOnly ==
    << <<".", "j", "p", "e", "g">>, <<".", "j", "p", "g">> >>

\* ['*.jpeg', '*.jpg', '*.JPEG', '*.JPG'], each by what follows the star.
Patterns ==
    << <<".", "j", "p", "e", "g">>, <<".", "j", "p", "g">>,
       <<".", "J", "P", "E", "G">>, <<".", "J", "P", "G">> >>

EndsWith(name, suffix) ==
    /\ Len(name) >= Len(suffix)
    /\ SubSeq(name, Len(name) - Len(suffix) + 1, Len(name)) = suffix

\* Some enumeration of a set: the order in which glob yields its matches
\* is the directory's.
RECURSIVE SomeOrder(_)
SomeOrder(S) ==
    IF S = {} THEN <<>>
    ELSE LET x == CHOOSE y \in S : TRUE IN <<x>> \o SomeOrder(S \ {x})

\* source_dir.glob('*' + suffix)
glob(dir, suffix) == SomeOrder({nm \in dir : EndsWith(nm, suffix)})

\* image_files.extend(source_dir.glob(pattern)) for the first k patterns.
RECURSIVE Extended(_, _)
Extended(dir, k) ==
    IF k = 0 THEN <<>> ELSE Extended(dir, k - 1) \o glob(dir, Patterns[k])

get_image_files(source_dir) == sorted(Extended(source_dir, Len(Patterns)))

\* The entry names a source directory is made of: the four accepted
\* spellings, a mixed-case one, and two that are no images.
SourcePool ==
    { <<"a", ".", "j", "p", "g">>,
      <<"b", ".", "j", "p", "e", "g">>,
      <<"c", ".", "J", "P", "G">>,
      <<"d", ".", "J", "P", "E", "G">>,
      <<"e", ".", "J", "p", "g">>,
      <<"f", ".", "p", "n", "g">>,
      <<"a", ".", "j", "p", "g", ".", "t", "x", "t">> }

EnumInit ==
    /\ source \in SUBSET SourcePool
    /\ listed = <<>>
    /\ images = NoDir /\ thumbs = NoDir
    /\ index = IndexFile("absent", EmptyDoc)
    /\ pc = "idle"
    /\ args = [photographer |-> FALSE, index_file |-> FALSE]
    /\ image_files = <<>>
    /\ highest_num = 0
    /\ current_num = 0
    /\ imported_files = <<>>
    /\ pos = 0
    /\ status = NotExited
    /\ errors = NoErrors
    /\ runs = 0
    /\ faults = 0
    /\ admitted = <<>>
    /\ copyLog = <<>>
    /\ indexBefore = index
    /\ mergeOutcome = "none"
    /\ crashed = FALSE
    /\ total = 0
    /\ imagesBefore = images
    /\ thumbsBefore = thumbs
    /\ inSync = FALSE
    /\ leftBehind = {}

\* image_files = get_image_files(source_dir), called on the same directory.
Enumerate ==
    /\ Len(listed) < MaxCalls
    /\ listed' = Append(listed, get_image_files(source))
    /\ UNCHANGED <<images, thumbs, index, pc, args, image_files, highest_num,
                   current_num, imported_files, pos, status, errors, runs,
                   faults, admitted, copyLog, indexBefore, mergeOutcome,
                   crashed, total, imagesBefore, thumbsBefore, inSync,
                   leftBehind, source>>

EnumNext == Enumerate

EnumSpec == EnumInit /\ [][EnumNext]_vars

----------------------------------------------------------------------------
(* Properties.                                                             *)

\* The run is over and main returned.
Returned == pc = "done"

\* The for loop ended without an exception.
LoopFinished ==
    \/ pc \in {"merge", "report", "done"}
    \/ pc = "aborted" /\ errors.copy = 0

\* A name of exactly the form LOP25-dddd.jpeg.
ExactForm(name) == pattern_match(name) /\ Len(name) = Len(new_name(0))

\* The highest number among the regular files of exactly that form.
ExactHighest(d) ==
    SetMax({0} \cup {int(group1(nm)) : nm \in
                {f \in DOMAIN d.files : d.files[f].isFile /\ ExactForm(f)}})

\* The index entries for a list of file names.
EntriesOf(names) == [k \in 1..Len(names) |-> [file |-> names[k]]]

\* The entries of a document's images array, none when it has no such key.
PriorEntries(doc) ==
    IF "images" \in DOMAIN doc THEN doc["images"].items ELSE <<>>

IndexHolds(nm) ==
    /\ index.st = "toml"
    /\ "images" \in DOMAIN index.doc
    /\ \E k \in DOMAIN index.doc["images"].items :
           index.doc["images"].items[k] = [file |-> nm]

\* C1: over runs none of which ended by an exception, no two admitted items
\* have the same number or file name, and the first number of each run is
\* one more than the highest number admitted by the runs before it.
C1_NoIdentifierReuse ==
    ~crashed =>
        /\ \A a, b \in DOMAIN admitted :
              a # b => /\ admitted[a].name # admitted[b].name
                       /\ admitted[a].num # admitted[b].num
        /\ \A b \in DOMAIN admitted :
              (b > 1 /\ admitted[b - 1].run # admitted[b].run) =>
                  admitted[b].num =
                      SetMax({admitted[a].num : a \in 1..(b - 1)}) + 1

\* C2: the k-th copy of a run is that of the k-th enumerated file under the
\* number S + k and the name made from it, S being the allocator result, and
\* when the loop ends without a copy failure there are N copies and N
\* admitted names, whatever stamping and thumbnails did.
C2_SequentialIdentifiers ==
    /\ \A k \in DOMAIN copyLog :
          /\ copyLog[k].src = image_files[k]
          /\ copyLog[k].num = highest_num + k
          /\ copyLog[k].name = new_name(highest_num + k)
    /\ \A k \in DOMAIN imported_files :
          imported_files[k] = new_name(highest_num + k)
    /\ LoopFinished =>
          /\ Len(copyLog) = Len(image_files)
          /\ Len(imported_files) = Len(image_files)

\* A run of two files, one of them without a thumbnail, returned 0.
C2_Witness ==
    /\ Returned /\ status = 0
    /\ Len(image_files) = 2 /\ Len(imported_files) = 2
    /\ errors.thumb # {}

C4_ThumbnailFailureIsolated ==
    Returned =>
        \A K \in errors.thumb :
            /\ Has(images, copyLog[K].name)
            /\ images.files[copyLog[K].name].of = image_files[K]
            /\ mergeOutcome = "written" => IndexHolds(copyLog[K].name)
            /\ ~Has(thumbs, copyLog[K].name)
            /\ \A j \in DOMAIN copyLog \ errors.thumb :
                  /\ Has(images, copyLog[j].name)
                  /\ Has(thumbs, copyLog[j].name)
                  /\ thumbs.files[copyLog[j].name] = File(image_files[j], "thumb")

\* The images directory has not changed since the allocator looked at it.
JustScanned ==
    \/ pc = "copy" /\ pos = 1
    \/ pc = "done" /\ image_files = <<>>

\* C5: the allocator result is the highest number among the regular files
\* named exactly LOP25-dddd.jpeg, 0 when there is none; other names do not
\* change it.
C5_HighestOfExactNames ==
    JustScanned => highest_num = ExactHighest(images)

\* C6: when the copy of item K failed the process is over with a non-zero
\* exit status, only the K - 1 items before it were copied and admitted, no
\* file of a later item is in the images or thumbs directory, the counter
\* stands at K's number and update_toml_index was not called.
C6_CopyFailureAborts ==
    errors.copy # 0 =>
        LET K == errors.copy
        IN  /\ pc = "aborted"
            /\ status # 0 /\ status # NotExited
            /\ Len(copyLog) = K - 1
            /\ Len(imported_files) = K - 1
            /\ current_num = highest_num + K
            /\ errors.exif \cup errors.thumb \subseteq 1..(K - 1)
            /\ mergeOutcome = "none"
            /\ index = indexBefore
            /\ \A j \in (K + 1)..Len(image_files) :
                  /\ \A nm \in DOMAIN images.files :
                        images.files[nm].of # image_files[j]
                  /\ \A nm \in DOMAIN thumbs.files :
                        thumbs.files[nm].of # image_files[j]

\* The copy of the first of two files failed.
C6_Witness ==
    /\ errors.copy = 1
    /\ Len(image_files) = 2
    /\ pc = "aborted"

\* C7: whatever update_toml_index meets, the run goes on to its report and
\* returns 0, and the files copied during the run stay.
C7_IndexFailuresCaught ==
    mergeOutcome # "none" =>
        /\ pc \in {"report", "done"}
        /\ Returned => status = 0
        /\ \A k \in DOMAIN copyLog : Has(images, copyLog[k].name)

\* C8: once update_toml_index is over, the index file is as it was before
\* the call or holds the completely merged document.
C8_IndexWrittenAtomically ==
    mergeOutcome \in {"written", "open_failed", "torn"} =>
        \/ index = indexBefore
        \/ index = IndexFile("toml",
               AppendEntries(EnsureImages(LoadExisting(indexBefore).data),
                             imported_files))

\* C9: when the index file was absent or could not be loaded, the run is
\* not aborted by update_toml_index, and the document written holds the
\* images array with the new file names in admission order and no other key.
C9_UnloadableIndexStartsEmpty ==
    (mergeOutcome # "none" /\ indexBefore.st # "toml") =>
        /\ mergeOutcome # "raised"
        /\ pc \in {"report", "done"}
        /\ mergeOutcome = "written" =>
              /\ index.st = "toml"
              /\ DOMAIN index.doc = {"images"}
              /\ index.doc["images"] = Array(EntriesOf(imported_files))

\* Two new names were written over an index file that was not TOML.
C9_Witness ==
    /\ indexBefore.st = "garbage"
    /\ mergeOutcome = "written"
    /\ Len(imported_files) = 2
    /\ Returned

\* C10: when stamping item K failed, K's file holds what was copied, and
\* after the run K has its thumbnail and its index entry and every item of
\* the batch was processed.
C10_StampFailureKeepsCopy ==
    \A K \in errors.exif :
        /\ Has(images, copyLog[K].name)
        /\ images.files[copyLog[K].name] = File(image_files[K], "copied")
        /\ Returned =>
              /\ Has(thumbs, copyLog[K].name)
              /\ mergeOutcome = "written" => IndexHolds(copyLog[K].name)
              /\ Len(imported_files) = Len(image_files)

\* The elements of a sequence.
Range(q) == {q[k] : k \in DOMAIN q}

\* The last Len(files) entries of the array under `key` of the index are the
\* entries of `files`, in order.
NewEntriesUnder(key, files) ==
    /\ index.st = "toml"
    /\ key \in DOMAIN index.doc
    /\ index.doc[key].kind = "array"
    /\ LET items == index.doc[key].items
           n == Len(files)
       IN  /\ Len(items) >= n
           /\ \A k \in 1..n : items[Len(items) - n + k] = [file |-> files[k]]

\* C11: while the index listed the images directory at the start and every
\* run since was given the index path and ended by writing the index, after
\* each run the names of the index entries are the file names of the images
\* directory in ascending order of identifier, none of them twice.
C11_IndexListsDestination ==
    (inSync /\ pc \in {"idle", "done"}) =>
        /\ IndexedNames(index) = SortById(DOMAIN images.files)
        /\ \A a, b \in DOMAIN IndexedNames(index) :
              a # b => IndexedNames(index)[a] # IndexedNames(index)[b]

\* C13: every destination file name a run makes is the prefix, exactly four
\* digits and the extension.
C13_FixedWidthNames ==
    /\ \A k \in DOMAIN copyLog : ExactForm(copyLog[k].name)
    /\ \A k \in DOMAIN imported_files : ExactForm(imported_files[k])

\* C14, as stated: after a merge the new entries are in the top-level array
\* named entries, each holding its file name under the key file.
C14_EntriesKey ==
    mergeOutcome = "written" => NewEntriesUnder("entries", imported_files)

\* C14, amended: after a merge the new entries are in the top-level array
\* named images, each holding its file name under the key file, and they
\* are all of the array when the key was absent before.
C14_ImagesKey ==
    mergeOutcome = "written" =>
        /\ NewEntriesUnder("images", imported_files)
        /\ (indexBefore.st = "toml" /\ "images" \notin DOMAIN indexBefore.doc) =>
              index.doc["images"] = Array(EntriesOf(imported_files))

\* Two names were merged into a document that had no images key.
C14_Witness ==
    /\ mergeOutcome = "written"
    /\ indexBefore.st = "toml"
    /\ "images" \notin DOMAIN indexBefore.doc
    /\ Len(imported_files) = 2

\* C15: a run that enumerated no source file returned 0, admitted nothing,
\* left the files of the images and thumbs directories as they were and
\* did not touch the index file.
C15_EmptySourceChangesNothing ==
    (runs > 0 /\ image_files = <<>> /\ pc \notin {"idle", "copy"}) =>
        /\ Returned
        /\ status = 0
        /\ imported_files = <<>>
        /\ images.files = imagesBefore.files
        /\ thumbs.files = thumbsBefore.files
        /\ mergeOutcome = "none"
        /\ index = indexBefore

\* A run with --index-file and no source file ended, and there is still no
\* index file.
C15_Witness ==
    /\ runs > 0 /\ image_files = <<>> /\ Returned
    /\ args.index_file
    /\ index.st = "absent"

\* C16: per item the steps are copy, then stamping exactly when a
\* photographer was given, then the thumbnail whatever stamping did, then
\* the append of the name together with the increment of the counter; the
\* index is touched only by the one merge after the last item, and only
\* when the index path was given.
C16_StepOrder ==
    [][ /\ (pc = "copy" /\ pc' # "aborted") =>
              /\ pc' = (IF args.photographer THEN "exif" ELSE "thumb")
              /\ Len(copyLog') = pos
              /\ thumbs' = thumbs
              /\ imported_files' = imported_files /\ current_num' = current_num
        /\ pc = "exif" =>
              /\ args.photographer
              /\ Len(copyLog) = pos
              /\ pc' = "thumb"
              /\ thumbs' = thumbs
              /\ imported_files' = imported_files /\ current_num' = current_num
        /\ pc = "thumb" =>
              /\ Len(copyLog) = pos /\ Len(imported_files) = pos - 1
              /\ pc' = "append"
              /\ images' = images
              /\ imported_files' = imported_files /\ current_num' = current_num
        /\ pc = "append" =>
              /\ imported_files' = Append(imported_files, copyLog[pos].name)
              /\ current_num' = current_num + 1
              /\ images' = images /\ thumbs' = thumbs
              /\ pc' = IF pos < Len(image_files) THEN "copy"
                       ELSE IF args.index_file THEN "merge" ELSE "report"
        /\ thumbs'.files # thumbs.files => pc = "thumb"
        /\ index' # index =>
              /\ pc = "merge" /\ args.index_file
              /\ Len(imported_files) = Len(image_files)
        /\ pc = "merge" => pc' \in {"report", "aborted"}
        /\ (pc' = "merge" /\ pc # "merge") =>
              /\ pc = "append" /\ pos = Len(image_files) /\ args.index_file
      ]_vars

\* A run of two files with a photographer and an index path returned;
\* stamping failed for one of them, and both have their thumbnail and
\* their index entry.
C16_Witness ==
    /\ Returned /\ args.photographer /\ args.index_file
    /\ Len(image_files) = 2
    /\ errors.exif # {}
    /\ \A k \in DOMAIN copyLog : Has(thumbs, copyLog[k].name)
    /\ mergeOutcome = "written"
    /\ NewEntriesUnder("images", imported_files)

\* C17: every file that was in the images directory when the run started is
\* still there, as it was.
C17_ExistingFilesUntouched ==
    \A nm \in DOMAIN imagesBefore.files :
        /\ Has(images, nm)
        /\ images.files[nm] = imagesBefore.files[nm]

\* C18: when the copy of item K ended the run, the items before K are in
\* the images directory, with their thumbnails unless making one failed,
\* the index file is as it was before the run and names none of them, and
\* the allocator of the next run returns at least their highest number.
C18_AbortKeepsEarlierItems ==
    /\ (pc = "aborted" /\ errors.copy # 0) =>
          /\ index = indexBefore /\ mergeOutcome = "none"
          /\ \A k \in DOMAIN copyLog :
                /\ Has(images, copyLog[k].name)
                /\ images.files[copyLog[k].name].of = copyLog[k].src
                /\ k \notin errors.thumb => Has(thumbs, copyLog[k].name)
                /\ copyLog[k].name \notin Range(IndexedNames(index))
    /\ JustScanned => \A m \in leftBehind : highest_num >= m

\* The lower-case form of the letters of the accepted extensions.
Lower(c) ==
    CASE c = "J" -> "j" [] c = "P" -> "p" [] c = "E" -> "e" [] c = "G" -> "g"
      [] OTHER -> c

LowerName(nm) == [k \in DOMAIN nm |-> Lower(nm[k])]

\* The name ends in .jpg or .jpeg, in whatever case.
AcceptedAnyCase(nm) ==
    \/ EndsWith(LowerName(nm), <<".", "j", "p", "g">>)
    \/ EndsWith(LowerName(nm), <<".", "j", "p", "e", "g">>)

\* The name ends in .jpeg, .jpg, .JPEG or .JPG.
AcceptedSpelling(nm) ==
    \/ EndsWith(nm, <<".", "j", "p", "e", "g">>)
    \/ EndsWith(nm, <<".", "j", "p", "g">>)
    \/ EndsWith(nm, <<".", "J", "P", "E", "G">>)
    \/ EndsWith(nm, <<".", "J", "P", "G">>)

\* q holds exactly the names of S, each once, in ascending order.
ListsAscending(q, S) ==
    /\ Range(q) = S
    /\ Len(q) = Cardinality(S)
    /\ \A k \in 1..(Len(q) - 1) : LexLess(q[k], q[k + 1])

\* C12, as stated: every call returns exactly the entries whose name ends
\* in .jpg or .jpeg in any case variant, each once, in ascending order of
\* name, and two calls on the same directory return the same list.
C12_AnyCaseVariant ==
    /\ \A k \in DOMAIN listed :
          ListsAscending(listed[k], {nm \in source : AcceptedAnyCase(nm)})
    /\ \A j, k \in DOMAIN listed : listed[j] = listed[k]

\* C12, amended: every call returns exactly the entries whose name ends in
\* .jpeg, .jpg, .JPEG or .JPG, each once, in ascending order of name, and
\* two calls on the same directory return the same list.
C12_FourSpellings ==
    /\ \A k \in DOMAIN listed :
          ListsAscending(listed[k], {nm \in source : AcceptedSpelling(nm)})
    /\ \A j, k \in DOMAIN listed : listed[j] = listed[k]

\* Two calls on the directory that holds every name of the pool returned
\* the four entries with an accepted spelling.
C12_Witness ==
    /\ source = SourcePool
    /\ Len(listed) = 2
    /\ Len(listed[1]) = 4

====
